---- MODULE Spec2Model ----
(***************************************************************************)
(* minecraft-je-motd: the Server List Ping client of src/main.go.          *)
(*                                                                         *)
(*   - the VarInt codec (writeVarInt, readVarInt),                         *)
(*   - getServerStatus, step by step over one TCP connection,              *)
(*   - the chat-component text projections.                                *)
(*                                                                         *)
(* Bytes are the integers 0..255 and strings are sequences of bytes.  A Go *)
(* int is 64 bits wide on the released build (amd64); a value that may     *)
(* exceed 31 bits is kept as the pair [hi, lo] = hi * 2^28 + lo.           *)
(***************************************************************************)
EXTENDS Integers, Sequences, FiniteSets, TLC

VARIABLES
    \* ---- VarInt codec harness
    cPc,        \* "idle" | "written" | "given" | "read"
    cValue,     \* the value handed to writeVarInt (-1: none)
    cBuf,       \* the buffer writeVarInt filled / readVarInt reads
    cRes,       \* what readVarInt returned
    \* ---- getServerStatus
    pc,         \* position in getServerStatus
    host,       \* argument host, as bytes
    port,       \* argument port (uint16)
    rx,         \* the bytes read from the connection so far, in order
    conn,       \* "none" | "open" | "closed"
    ioLog,      \* every conn.Write, read and Close issued, in order
    vNum,       \* readVarInt(conn): local num
    vNumRead,   \* readVarInt(conn): local numRead
    length,     \* local length
    data,       \* local data, filled so far by io.ReadFull
    now,        \* the wall clock
    start,      \* local start
    ping,       \* local ping
    tStatusRead,\* the clock when the status payload was completely read
    failures,   \* the steps whose operation returned an error, in order
    ret,        \* the returned triple [json, ping, err]
    \* ---- text renderer harness
    rPc,        \* "idle" | "plain" | "colored" | "legacy" | "rgb"
    component,  \* the ChatComponent handed to the renderer
    legacy,     \* the string handed to parseLegacyColorString
    rgb,        \* the triple handed to rgbToConsoleColor
    rOut        \* the rendered text

codecVars == <<cPc, cValue, cBuf, cRes>>
statusVars == <<pc, host, port, rx, conn, ioLog, vNum, vNumRead, length, data,
                now, start, ping, tStatusRead, failures, ret>>
textVars == <<rPc, component, legacy, rgb, rOut>>
vars == <<codecVars, statusVars, textVars>>

(***************************************************************************)
(* Bounds of the model.                                                    *)
(***************************************************************************)
MaxSmallValue == 300     \* writeVarInt is tried on 0..MaxSmallValue and on the limits
MaxVarIntStream == 6     \* readVarInt is tried on every byte stream up to this length
MaxStream == 4           \* the server sends at most this many bytes
MaxClock == 1            \* the clock is followed up to this reading
MaxExtra == 2            \* a component has at most this many extra children
MaxLegacy == 4           \* parseLegacyColorString is tried on every string up to this length
RgbSteps == 5            \* each colour channel is tried at this many even steps of 0..255

(***************************************************************************)
(* Go int, 64 bits: [hi, lo] stands for hi * 2^28 + lo.                    *)
(***************************************************************************)
LoWidth == 128 * 128 * 128 * 128    \* 2^28, four 7-bit groups

Wide(v) == [hi |-> v \div LoWidth, lo |-> v % LoWidth]
WideZero == [hi |-> 0, lo |-> 0]
FitsNat(w) == w.hi = 0

Pow128(k) == CASE k = 0 -> 1 [] k = 1 -> 128 [] k = 2 -> 16384 [] k = 3 -> 2097152

\* num |= int(val) << (7 * numRead): the groups never overlap, so the OR is a sum
OrShifted(num, val, numRead) ==
    IF numRead < 4
        THEN [num EXCEPT !.lo = @ + val * Pow128(numRead)]
        ELSE [num EXCEPT !.hi = @ + val * Pow128(numRead - 4)]

Byte == 0..255
HighBit(b) == b >= 128          \* b & 0x80 != 0
Low7(b) == b % 128              \* b & 0x7F

(***************************************************************************)
(* writeVarInt: the bytes it appends to buf, for value >= 0.               *)
(***************************************************************************)
RECURSIVE writeVarInt_NoContinuation(_)
writeVarInt_NoContinuation(value) ==
    LET temp == value % 128
        rest == value \div 128
    IN  IF rest # 0 THEN <<temp>> \o writeVarInt_NoContinuation(rest)
                    ELSE <<temp>>

RECURSIVE writeVarInt(_)
writeVarInt(value) ==
    LET temp == value % 128          \* byte(value & 0x7F)
        rest == value \div 128       \* value >>= 7
    IN  IF rest # 0 THEN <<temp + 128>> \o writeVarInt(rest)
                    ELSE <<temp>>

(***************************************************************************)
(* readVarInt.  VarIntStep is one pass of its loop once r.Read delivered   *)
(* the byte b; readVarInt runs the loop over a reader that holds the bytes *)
(* r and answers EOF after them (a bytes.Buffer).  n counts the bytes      *)
(* taken from the reader.                                                  *)
(***************************************************************************)
VarIntStep(num, numRead, b) ==
    LET num2 == OrShifted(num, Low7(b), numRead)
    IN  IF ~HighBit(b)
            THEN [done |-> TRUE, num |-> num2, numRead |-> numRead, err |-> "nil"]
        ELSE IF numRead + 1 > 5
            THEN [done |-> TRUE, num |-> WideZero, numRead |-> numRead + 1,
                  err |-> "VarIntTooLong"]
        ELSE [done |-> FALSE, num |-> num2, numRead |-> numRead + 1, err |-> "nil"]

RECURSIVE readVarIntLoop(_, _, _, _)
readVarIntLoop(r, n, num, numRead) ==
    IF n >= Len(r)
        THEN [num |-> WideZero, n |-> n, err |-> "EOF"]
        ELSE LET s == VarIntStep(num, numRead, r[n + 1])
             IN  IF s.done THEN [num |-> s.num, n |-> n + 1, err |-> s.err]
                           ELSE readVarIntLoop(r, n + 1, s.num, s.numRead)

readVarInt(r) == readVarIntLoop(r, 0, WideZero, 0)

(***************************************************************************)
(* The codec harness: writeVarInt on chosen values, readVarInt on what it  *)
(* wrote and on arbitrary byte streams.                                    *)
(***************************************************************************)
VarIntValues ==
    (0..MaxSmallValue) \cup
    {16383, 16384, 2097151, 2097152, 268435455, 268435456, 2147483647}

CodecBytes == {0, 1, 128, 255}

RECURSIVE SeqsOfLen(_, _)
SeqsOfLen(S, n) ==
    IF n = 0 THEN {<<>>}
    ELSE {Append(s, x) : s \in SeqsOfLen(S, n - 1), x \in S}

SeqsUpTo(S, n) == UNION {SeqsOfLen(S, k) : k \in 0..n}

NoResult == [num |-> WideZero, n |-> 0, err |-> "none"]

CodecInit ==
    /\ cPc = "idle"
    /\ cValue = -1
    /\ cBuf = <<>>
    /\ cRes = NoResult

CallWriteVarInt ==
    /\ cPc = "idle"
    /\ \E v \in VarIntValues :
        /\ cValue' = v
        /\ cBuf' = writeVarInt(v)
    /\ cPc' = "written"
    /\ UNCHANGED <<cRes, statusVars, textVars>>

GiveStream ==
    /\ cPc = "idle"
    /\ \E s \in SeqsUpTo(CodecBytes, MaxVarIntStream) : cBuf' = s
    /\ cPc' = "given"
    /\ UNCHANGED <<cValue, cRes, statusVars, textVars>>

CallReadVarInt ==
    /\ cPc \in {"written", "given"}
    /\ cRes' = readVarInt(cBuf)
    /\ cPc' = IF cPc = "written" THEN "roundtrip" ELSE "read"
    /\ UNCHANGED <<cValue, cBuf, statusVars, textVars>>

(***************************************************************************)
(* getServerStatus.                                                        *)
(*                                                                         *)
(* The server is the environment: each read of the connection either       *)
(* delivers bytes the server chose, ends in an error because the server    *)
(* closed, or never returns because the server stays silent (the code sets *)
(* no deadline on the connection, so nothing wakes such a read).           *)
(***************************************************************************)
ProtocolVersion == 754
NextStateStatus == 1
StatusRequest == <<1, 0>>

LongHost == [i \in 1..130 |-> 97]
Hosts == {<<109, 99>>, LongHost}
Ports == {80, 25565}
RxBytes == {0, 1, 2, 3, 128}

\* binary.Write(&handshake, binary.BigEndian, port)
BigEndian16_Little(p) == <<p % 256, p \div 256>>
BigEndian16(p) == <<p \div 256, p % 256>>

handshakePayload(h, p) ==
    <<0>> \o writeVarInt(ProtocolVersion) \o writeVarInt(Len(h)) \o h
          \o BigEndian16(p) \o writeVarInt(NextStateStatus)

handshakePacket(h, p) ==
    writeVarInt(Len(handshakePayload(h, p))) \o handshakePayload(h, p)

NoReturn == [json |-> <<>>, ping |-> 0, err |-> "none"]
Entry(op, bytes, ok) == [op |-> op, bytes |-> bytes, ok |-> ok]
CloseEntry == Entry("close", <<>>, TRUE)

StatusInit ==
    /\ pc = "call"
    /\ host \in Hosts
    /\ port \in Ports
    /\ rx = <<>>
    /\ conn = "none"
    /\ ioLog = <<>>
    /\ vNum = WideZero
    /\ vNumRead = 0
    /\ length = WideZero
    /\ data = <<>>
    /\ now = 0
    /\ start = 0
    /\ ping = 0
    /\ tStatusRead = 0
    /\ failures = <<>>
    /\ ret = NoReturn

\* a return statement after the dial succeeded: the deferred conn.Close() runs
Return_CloseOnSuccessOnly(log, json, latency, err) ==
    /\ ret' = [json |-> json, ping |-> latency, err |-> err]
    /\ pc' = "done"
    /\ conn' = IF err = "nil" THEN "closed" ELSE conn
    /\ ioLog' = IF err = "nil" THEN Append(log, CloseEntry) ELSE log

Return(log, json, latency, err) ==
    /\ ret' = [json |-> json, ping |-> latency, err |-> err]
    /\ pc' = "done"
    /\ conn' = "closed"
    /\ ioLog' = Append(log, CloseEntry)

\* time that passes while a read waits
Elapse == \E d \in 0..1 : now + d <= MaxClock /\ now' = now + d

DialOk ==
    /\ pc = "call"
    /\ conn' = "open"
    /\ pc' = "writeHandshake"
    /\ UNCHANGED <<host, port, rx, ioLog, vNum, vNumRead, length, data, now, start,
                   ping, tStatusRead, failures, ret, codecVars, textVars>>

DialFail ==
    /\ pc = "call"
    /\ ret' = [json |-> <<>>, ping |-> 0, err |-> "dial"]
    /\ failures' = Append(failures, "dial")
    /\ pc' = "done"
    /\ UNCHANGED <<host, port, rx, conn, ioLog, vNum, vNumRead, length, data, now,
                   start, ping, tStatusRead, codecVars, textVars>>

\* conn.Write(packet.Bytes()): the result is discarded
WriteHandshake ==
    /\ pc = "writeHandshake"
    /\ \E ok \in BOOLEAN :
        /\ ioLog' = Append(ioLog, Entry("write", handshakePacket(host, port), ok))
        /\ failures' = IF ok THEN failures ELSE Append(failures, "writeHandshake")
    /\ pc' = "writeRequest"
    /\ UNCHANGED <<host, port, rx, conn, vNum, vNumRead, length, data, now, start,
                   ping, tStatusRead, ret, codecVars, textVars>>

\* conn.Write([]byte{0x01, 0x00}); start := time.Now()
WriteStatusRequest ==
    /\ pc = "writeRequest"
    /\ \E ok \in BOOLEAN :
        /\ ioLog' = Append(ioLog, Entry("write", StatusRequest, ok))
        /\ failures' = IF ok THEN failures ELSE Append(failures, "writeRequest")
    /\ start' = now
    /\ vNum' = WideZero
    /\ vNumRead' = 0
    /\ pc' = "readLength"
    /\ UNCHANGED <<host, port, rx, conn, length, data, now, ping, tStatusRead, ret,
                   codecVars, textVars>>

\* one pass of readVarInt(conn): r.Read(b) delivers the next byte of the server
ReadLengthByte ==
    /\ pc = "readLength"
    /\ Len(rx) < MaxStream
    /\ Elapse
    /\ \E b \in RxBytes :
        LET s == VarIntStep(vNum, vNumRead, b)
            log == Append(ioLog, Entry("read", <<b>>, TRUE))
        IN  /\ rx' = Append(rx, b)
            /\ IF s.done /\ s.err = "nil"
                   THEN /\ length' = s.num
                        /\ data' = <<>>
                        /\ pc' = "readPayload"
                        /\ ioLog' = log
                        /\ UNCHANGED <<vNum, vNumRead, conn, failures, ret>>
               ELSE IF s.done
                   THEN /\ failures' = Append(failures, "length")
                        /\ Return(log, <<>>, 0, s.err)
                        /\ UNCHANGED <<vNum, vNumRead, length, data>>
               ELSE /\ vNum' = s.num
                    /\ vNumRead' = s.numRead
                    /\ ioLog' = log
                    /\ UNCHANGED <<pc, length, data, conn, failures, ret>>
    /\ UNCHANGED <<host, port, start, ping, tStatusRead, codecVars, textVars>>

\* r.Read(b) returns an error: the server closed the connection
ReadLengthError ==
    /\ pc = "readLength"
    /\ Elapse
    /\ failures' = Append(failures, "length")
    /\ Return(Append(ioLog, Entry("read", <<>>, FALSE)), <<>>, 0, "EOF")
    /\ UNCHANGED <<host, port, rx, vNum, vNumRead, length, data, start, ping,
                   tStatusRead, codecVars, textVars>>

\* r.Read(b) never returns: the server sends nothing more and keeps the
\* connection open, and no deadline was set on conn
ReadLengthBlocks ==
    /\ pc = "readLength"
    /\ pc' = "blocked"
    /\ ioLog' = Append(ioLog, Entry("readPending", <<>>, FALSE))
    /\ UNCHANGED <<host, port, rx, conn, vNum, vNumRead, length, data, now, start,
                   ping, tStatusRead, failures, ret, codecVars, textVars>>

\* what io.ReadFull(conn, data) still has to read, capped by what the server may send
Room == MaxStream - Len(rx)
CanFill == FitsNat(length) /\ length.lo <= Room
ShortLens == IF CanFill THEN 0..(length.lo - 1) ELSE 0..Room
ReadEntries(chunk, ok) == IF chunk = <<>> /\ ok THEN <<>> ELSE <<Entry("read", chunk, ok)>>

\* data := make([]byte, length); io.ReadFull(conn, data) fills it;
\* ping := time.Since(start)
ReadPayload ==
    /\ pc = "readPayload"
    /\ CanFill
    /\ Elapse
    /\ \E chunk \in SeqsOfLen(RxBytes, length.lo) :
        /\ rx' = rx \o chunk
        /\ data' = chunk
        /\ ioLog' = ioLog \o ReadEntries(chunk, TRUE)
    /\ tStatusRead' = now'
    /\ ping' = now' - start
    /\ pc' = "parse"
    /\ UNCHANGED <<host, port, conn, vNum, vNumRead, length, start, failures, ret,
                   codecVars, textVars>>

\* io.ReadFull(conn, data) gets fewer bytes than length and then an error
ReadPayloadShort ==
    /\ pc = "readPayload"
    /\ Elapse
    /\ \E k \in ShortLens : \E chunk \in SeqsOfLen(RxBytes, k) :
        /\ rx' = rx \o chunk
        /\ data' = chunk
        /\ Return(ioLog \o ReadEntries(chunk, FALSE), <<>>, 0,
                  IF k = 0 THEN "EOF" ELSE "UnexpectedEOF")
    /\ failures' = Append(failures, "payload")
    /\ UNCHANGED <<host, port, vNum, vNumRead, length, start, ping, tStatusRead,
                   codecVars, textVars>>

\* io.ReadFull(conn, data) gets fewer bytes than length and then waits for ever
ReadPayloadBlocks ==
    /\ pc = "readPayload"
    /\ \E k \in ShortLens : \E chunk \in SeqsOfLen(RxBytes, k) :
        /\ rx' = rx \o chunk
        /\ data' = chunk
        /\ ioLog' = (ioLog \o ReadEntries(chunk, TRUE))
                        \o <<Entry("readPending", <<>>, FALSE)>>
    /\ pc' = "blocked"
    /\ UNCHANGED <<host, port, conn, vNum, vNumRead, length, now, start, ping,
                   tStatusRead, failures, ret, codecVars, textVars>>

\* dataBuf := bytes.NewBuffer(data); the two readVarInt calls, whose errors are
\* discarded; jsonData := make([]byte, jsonLen); io.ReadFull(dataBuf, jsonData)
Drop(s, n) == SubSeq(s, n + 1, Len(s))
Mark(cond, name) == IF cond THEN <<name>> ELSE <<>>

statusJSON_KeepPacketID(d) ==
    LET jsonLenR == readVarInt(d)
        jsonLen == jsonLenR.num
        body == Drop(d, jsonLenR.n)
        full == FitsNat(jsonLen) /\ jsonLen.lo <= Len(body)
    IN  [json |-> IF full THEN SubSeq(body, 1, jsonLen.lo) ELSE <<>>,
         err |-> IF full THEN "nil" ELSE IF body = <<>> THEN "EOF" ELSE "UnexpectedEOF",
         failed |-> Mark(jsonLenR.err # "nil", "jsonLength") \o Mark(~full, "json")]

statusJSON(d) ==
    LET pktId == readVarInt(d)                 \* discarded
        afterId == Drop(d, pktId.n)
        jsonLenR == readVarInt(afterId)
        jsonLen == jsonLenR.num
        body == Drop(afterId, jsonLenR.n)
        full == FitsNat(jsonLen) /\ jsonLen.lo <= Len(body)
    IN  [json |-> IF full THEN SubSeq(body, 1, jsonLen.lo) ELSE <<>>,
         err |-> IF full THEN "nil" ELSE IF body = <<>> THEN "EOF" ELSE "UnexpectedEOF",
         failed |-> Mark(pktId.err # "nil", "packetID")
                        \o Mark(jsonLenR.err # "nil", "jsonLength")
                        \o Mark(~full, "json")]

ParseAndReturn ==
    /\ pc = "parse"
    /\ LET r == statusJSON(data)
       IN  /\ failures' = failures \o r.failed
           /\ IF r.err = "nil"
                  THEN Return(ioLog, r.json, ping, "nil")
                  ELSE Return(ioLog, <<>>, 0, r.err)
    /\ UNCHANGED <<host, port, rx, vNum, vNumRead, length, data, now, start, ping,
                   tStatusRead, codecVars, textVars>>

(***************************************************************************)
(* The text renderer.  A string is a sequence of one-character strings.  A *)
(* ChatComponentMixed holds its *ChatComponent as a sequence of length 0   *)
(* (nil) or 1.                                                             *)
(***************************************************************************)
Texts == {<<>>, <<"A">>, <<"B">>}
Colors == {"", "red"}

ChatComponent(text, color, extra) == [Text |-> text, Color |-> color, Extra |-> extra]
\* UnmarshalJSON: a quoted string fills RawString, an object fills TextComponent
MixedString(str) == [TextComponent |-> <<>>, RawString |-> str]
MixedComponent(c) == [TextComponent |-> <<c>>, RawString |-> <<>>]
Mixed(S) == {MixedComponent(c) : c \in S} \cup {MixedString(t) : t \in Texts}

Leaves == {ChatComponent(t, c, <<>>) : t \in Texts, c \in Colors}
Inner == {ChatComponent(<<"C">>, "#FF0000", <<m>>) : m \in Mixed(Leaves)}
\* a component and a string child whose texts carry legacy codes
Styled == {ChatComponent(<<"§", "l", "D">>, "gold", <<>>)}
StyledString == MixedString(<<"§", "c", "E", "§">>)
Components ==
    {ChatComponent(t, c, e) :
        t \in Texts, c \in Colors,
        e \in SeqsUpTo(Mixed(Leaves \cup Inner \cup Styled) \cup {StyledString}, MaxExtra)}

RECURSIVE parseChatComponentPlain_SkipStrings(_)
parseChatComponentPlain_SkipStrings(comp) ==
    LET RECURSIVE children(_)
        children(i) ==
            IF i > Len(comp.Extra) THEN <<>>
            ELSE LET child == comp.Extra[i]
                 IN  (IF child.TextComponent # <<>>
                          THEN parseChatComponentPlain_SkipStrings(child.TextComponent[1])
                          ELSE <<>>)
                     \o children(i + 1)
    IN  comp.Text \o children(1)

RECURSIVE parseChatComponentPlain(_)
parseChatComponentPlain(comp) ==
    LET RECURSIVE children(_)
        children(i) ==
            IF i > Len(comp.Extra) THEN <<>>
            ELSE LET child == comp.Extra[i]
                 IN  (IF child.TextComponent # <<>>
                          THEN parseChatComponentPlain(child.TextComponent[1])
                          ELSE child.RawString)
                     \o children(i + 1)
    IN  comp.Text \o children(1)

(***************************************************************************)
(* The colour tables.  An escape sequence is one element of the output,    *)
(* written with the escape character as \033.                              *)
(***************************************************************************)
ansiReset == "\\033[0m"

minecraftColorMap ==
    [black |-> "\\033[30m", dark_blue |-> "\\033[34m", dark_green |-> "\\033[32m",
     dark_aqua |-> "\\033[36m", dark_red |-> "\\033[31m", dark_purple |-> "\\033[35m",
     gold |-> "\\033[33m", gray |-> "\\033[37m", dark_gray |-> "\\033[90m",
     blue |-> "\\033[94m", green |-> "\\033[92m", aqua |-> "\\033[96m",
     red |-> "\\033[91m", light_purple |-> "\\033[95m", yellow |-> "\\033[93m",
     white |-> "\\033[97m"]

legacyColorMap ==
    ("0" :> "\\033[30m") @@ ("1" :> "\\033[34m") @@ ("2" :> "\\033[32m") @@
    ("3" :> "\\033[36m") @@ ("4" :> "\\033[31m") @@ ("5" :> "\\033[35m") @@
    ("6" :> "\\033[33m") @@ ("7" :> "\\033[37m") @@ ("8" :> "\\033[90m") @@
    ("9" :> "\\033[94m") @@ ("a" :> "\\033[92m") @@ ("b" :> "\\033[96m") @@
    ("c" :> "\\033[91m") @@ ("d" :> "\\033[95m") @@ ("e" :> "\\033[93m") @@
    ("f" :> "\\033[97m") @@ ("l" :> "\\033[1m") @@ ("o" :> "\\033[3m") @@
    ("n" :> "\\033[4m") @@ ("m" :> "\\033[9m") @@ ("r" :> "\\033[0m")

\* the characters of the colour strings the model uses
ColorChars ==
    ("" :> <<>>) @@
    ("red" :> <<"r", "e", "d">>) @@
    ("gold" :> <<"g", "o", "l", "d">>) @@
    ("#FF0000" :> <<"#", "F", "F", "0", "0", "0", "0">>)

HexDigit ==
    ("0" :> 0) @@ ("1" :> 1) @@ ("2" :> 2) @@ ("3" :> 3) @@ ("4" :> 4) @@
    ("5" :> 5) @@ ("6" :> 6) @@ ("7" :> 7) @@ ("8" :> 8) @@ ("9" :> 9) @@
    ("a" :> 10) @@ ("b" :> 11) @@ ("c" :> 12) @@ ("d" :> 13) @@ ("e" :> 14) @@
    ("f" :> 15) @@ ("A" :> 10) @@ ("B" :> 11) @@ ("C" :> 12) @@ ("D" :> 13) @@
    ("E" :> 14) @@ ("F" :> 15)

\* r, _ := strconv.ParseUint(two characters, 16, 8): 0 when it reports an error
ParseHexByte(hi, lo) ==
    IF hi \in DOMAIN HexDigit /\ lo \in DOMAIN HexDigit
        THEN 16 * HexDigit[hi] + HexDigit[lo]
        ELSE 0

\* fmt.Sprintf("\033[38;2;%d;%d;%dm", r, g, b)
TrueColor(r, g, b) ==
    "\\033[38;2;" \o ToString(r) \o ";" \o ToString(g) \o ";" \o ToString(b) \o "m"

hexToANSI(hex) ==
    IF Len(hex) # 7 \/ hex[1] # "#"
        THEN ""
        ELSE TrueColor(ParseHexByte(hex[2], hex[3]), ParseHexByte(hex[4], hex[5]),
                       ParseHexByte(hex[6], hex[7]))

getColorANSI(color) ==
    LET chars == ColorChars[color]
    IN  IF Len(chars) >= 1 /\ chars[1] = "#"       \* strings.HasPrefix(color, "#")
            THEN hexToANSI(chars)
        ELSE IF color \in DOMAIN minecraftColorMap
            THEN minecraftColorMap[color]
        ELSE ""

(***************************************************************************)
(* parseLegacyColorString, over the runes of s.                            *)
(***************************************************************************)
RECURSIVE legacyLoop_DropUnknown(_, _)
legacyLoop_DropUnknown(runes, i) ==
    IF i > Len(runes) THEN <<>>
    ELSE IF runes[i] = "§" /\ i + 1 <= Len(runes)
        THEN (IF runes[i + 1] \in DOMAIN legacyColorMap
                  THEN <<legacyColorMap[runes[i + 1]]>> ELSE <<>>)
             \o legacyLoop_DropUnknown(runes, i + 2)
    ELSE <<runes[i]>> \o legacyLoop_DropUnknown(runes, i + 1)

RECURSIVE legacyLoop(_, _)
legacyLoop(runes, i) ==
    IF i > Len(runes) THEN <<>>
    ELSE IF runes[i] = "§" /\ i + 1 <= Len(runes)
                           /\ runes[i + 1] \in DOMAIN legacyColorMap
        THEN <<legacyColorMap[runes[i + 1]]>> \o legacyLoop(runes, i + 2)
    ELSE <<runes[i]>> \o legacyLoop(runes, i + 1)

parseLegacyColorString(s) == legacyLoop(s, 1) \o <<ansiReset>>

(***************************************************************************)
(* parseChatComponentColored.                                              *)
(***************************************************************************)
RECURSIVE parseChatComponentColored(_)
parseChatComponentColored(comp) ==
    LET colorCode == getColorANSI(comp.Color)
        RECURSIVE children(_)
        children(i) ==
            IF i > Len(comp.Extra) THEN <<>>
            ELSE LET child == comp.Extra[i]
                 IN  (IF child.TextComponent # <<>>
                          THEN parseChatComponentColored(child.TextComponent[1])
                          ELSE parseLegacyColorString(child.RawString))
                     \o children(i + 1)
    IN  (IF colorCode # "" THEN <<colorCode>> ELSE <<>>)
            \o parseLegacyColorString(comp.Text)
            \o children(1)
            \o <<ansiReset>>

EmptyComponent == ChatComponent(<<>>, "", <<>>)

TextInit ==
    /\ rPc = "idle"
    /\ component \in Components
    /\ legacy = <<>>
    /\ rgb = <<0, 0, 0>>
    /\ rOut = <<>>

CallPlain ==
    /\ rPc = "idle"
    /\ rOut' = parseChatComponentPlain(component)
    /\ rPc' = "plain"
    /\ UNCHANGED <<component, legacy, rgb, codecVars, statusVars>>

CallColored ==
    /\ rPc = "idle"
    /\ rOut' = parseChatComponentColored(component)
    /\ rPc' = "colored"
    /\ UNCHANGED <<component, legacy, rgb, codecVars, statusVars>>

(***************************************************************************)
(* rgbToConsoleColor.  r, g, b are uint8; the differences and their        *)
(* squares are int32 and the distance uint32 in the code.                  *)
(***************************************************************************)
ConsoleColor(r, g, b, code) == [r |-> r, g |-> g, b |-> b, code |-> code]

windowsConsoleColors ==
    << ConsoleColor(0, 0, 0, "\\033[30m"),       ConsoleColor(128, 0, 0, "\\033[31m"),
       ConsoleColor(0, 128, 0, "\\033[32m"),     ConsoleColor(128, 128, 0, "\\033[33m"),
       ConsoleColor(0, 0, 128, "\\033[34m"),     ConsoleColor(128, 0, 128, "\\033[35m"),
       ConsoleColor(0, 128, 128, "\\033[36m"),   ConsoleColor(192, 192, 192, "\\033[37m"),
       ConsoleColor(128, 128, 128, "\\033[90m"), ConsoleColor(255, 0, 0, "\\033[91m"),
       ConsoleColor(0, 255, 0, "\\033[92m"),     ConsoleColor(255, 255, 0, "\\033[93m"),
       ConsoleColor(0, 0, 255, "\\033[94m"),     ConsoleColor(255, 0, 255, "\\033[95m"),
       ConsoleColor(0, 255, 255, "\\033[96m"),   ConsoleColor(255, 255, 255, "\\033[97m") >>

\* dist := uint32(dr*dr + dg*dg + db*db)
SquaredDistance(r, g, b, color) ==
    LET dr == r - color.r
        dg == g - color.g
        db == b - color.b
    IN  dr * dr + dg * dg + db * db

\* minDist := uint32(255*255*3) + 1
InitialMinDist == 255 * 255 * 3 + 1

RECURSIVE rgbLoop_LastMinimum(_, _, _, _, _)
rgbLoop_LastMinimum(r, g, b, i, best) ==
    IF i > Len(windowsConsoleColors) THEN best
    ELSE LET color == windowsConsoleColors[i]
             dist == SquaredDistance(r, g, b, color)
         IN  IF dist <= best.minDist
                 THEN rgbLoop_LastMinimum(r, g, b, i + 1,
                                          [minDist |-> dist, bestCode |-> color.code])
                 ELSE rgbLoop_LastMinimum(r, g, b, i + 1, best)

RECURSIVE rgbLoop(_, _, _, _, _)
rgbLoop(r, g, b, i, best) ==
    IF i > Len(windowsConsoleColors) THEN best
    ELSE LET color == windowsConsoleColors[i]
             dist == SquaredDistance(r, g, b, color)
         IN  IF dist < best.minDist
                 THEN rgbLoop(r, g, b, i + 1, [minDist |-> dist, bestCode |-> color.code])
                 ELSE rgbLoop(r, g, b, i + 1, best)

\* the loop's final minDist and bestCode
rgbSearch(r, g, b) ==
    rgbLoop(r, g, b, 1, [minDist |-> InitialMinDist, bestCode |-> "\\033[37m"])

rgbToConsoleColor(r, g, b) == rgbSearch(r, g, b).bestCode

\* the channel values tried: even steps of 0..255, and the values half way
\* between two palette levels
RgbLevels == {(255 * k) \div RgbSteps : k \in 0..RgbSteps} \cup {64, 128, 192}

RgbInit ==
    /\ rPc = "idle"
    /\ component = EmptyComponent
    /\ legacy = <<>>
    /\ rgb \in RgbLevels \X RgbLevels \X RgbLevels
    /\ rOut = <<>>

CallRgb ==
    /\ rPc = "idle"
    /\ rOut' = <<rgbToConsoleColor(rgb[1], rgb[2], rgb[3])>>
    /\ rPc' = "rgb"
    /\ UNCHANGED <<component, legacy, rgb, codecVars, statusVars>>

\* the strings handed to parseLegacyColorString: a description that is a JSON
\* string, as runes
LegacyRunes == {"§", "a", "r", "z", "H"}
Hello == <<"§", "a", "H", "e", "l", "l", "o", "§", "r">>
UnknownCode == <<"§", "z", "X">>
LegacyStrings == SeqsUpTo(LegacyRunes, MaxLegacy) \cup {Hello, UnknownCode}

LegacyInit ==
    /\ rPc = "idle"
    /\ component = EmptyComponent
    /\ legacy \in LegacyStrings
    /\ rgb = <<0, 0, 0>>
    /\ rOut = <<>>

CallLegacy ==
    /\ rPc = "idle"
    /\ rOut' = parseLegacyColorString(legacy)
    /\ rPc' = "legacy"
    /\ UNCHANGED <<component, legacy, rgb, codecVars, statusVars>>

(***************************************************************************)
(* Specifications.                                                         *)
(***************************************************************************)
TextIdle ==
    /\ rPc = "idle"
    /\ component = EmptyComponent
    /\ legacy = <<>>
    /\ rgb = <<0, 0, 0>>
    /\ rOut = <<>>

Init == StatusInit /\ CodecInit /\ TextIdle

Next ==
    \/ DialOk
    \/ DialFail
    \/ WriteHandshake
    \/ WriteStatusRequest
    \/ ReadLengthByte
    \/ ReadLengthError
    \/ ReadLengthBlocks
    \/ ReadPayload
    \/ ReadPayloadShort
    \/ ReadPayloadBlocks
    \/ ParseAndReturn

Spec == Init /\ [][Next]_vars

StatusIdle ==
    /\ StatusInit
    /\ host = <<109, 99>>
    /\ port = 25565

InitVarInt == CodecInit /\ StatusIdle /\ TextIdle

NextVarInt ==
    \/ CallWriteVarInt
    \/ GiveStream
    \/ CallReadVarInt

SpecVarInt == InitVarInt /\ [][NextVarInt]_vars

InitText == TextInit /\ StatusIdle /\ CodecInit

NextText ==
    \/ CallPlain
    \/ CallColored

SpecText == InitText /\ [][NextText]_vars

\* parseLegacyColorString alone
InitLegacy == LegacyInit /\ StatusIdle /\ CodecInit

NextLegacy ==
    \/ CallLegacy

SpecLegacy == InitLegacy /\ [][NextLegacy]_vars

\* rgbToConsoleColor alone
InitRgb == RgbInit /\ StatusIdle /\ CodecInit

NextRgb ==
    \/ CallRgb

SpecRgb == InitRgb /\ [][NextRgb]_vars

(***************************************************************************)
(* Properties of the wire exchange (checked under Spec).                   *)
(***************************************************************************)
Ok == pc = "done" /\ ret.err = "nil"
CleanOk == Ok /\ failures = <<>>
IsPrefix(a, b) == Len(a) <= Len(b) /\ SubSeq(b, 1, Len(a)) = a
OpsAt(op) == {i \in 1..Len(ioLog) : ioLog[i].op = op}

\* w is VarInt(L) and then L bytes: 0x00, VarInt(ProtocolVersion), VarInt(Len(h)),
\* h, p in two bytes big-endian, VarInt(1); decoded here with readVarInt
IsHandshakePacket(w, h, p) ==
    LET l == readVarInt(w)
        payload == Drop(w, l.n)
        ver == readVarInt(Drop(payload, 1))
        a1 == Drop(payload, 1 + ver.n)
        hl == readVarInt(a1)
        a2 == Drop(a1, hl.n)
        a3 == Drop(a2, Len(h))
        a4 == Drop(a3, 2)
        ns == readVarInt(a4)
    IN  /\ l.err = "nil" /\ l.num = Wide(Len(payload))
        /\ Len(payload) >= 1 /\ payload[1] = 0
        /\ ver.err = "nil" /\ ver.num = Wide(ProtocolVersion)
        /\ hl.err = "nil" /\ hl.num = Wide(Len(h))
        /\ IsPrefix(h, a2)
        /\ Len(a3) >= 2 /\ a3[1] * 256 + a3[2] = p
        /\ ns.err = "nil" /\ ns.num = Wide(1) /\ ns.n = Len(a4)

\* C1: once connected, the first thing on the connection is one write of the
\* handshake packet VarInt(L) [0x00, VarInt(754), VarInt(len host), host, port
\* big-endian, VarInt(1)] with L the payload length, the second is one write of
\* 0x01 0x00, and nothing else is ever written; every read comes after both.
C1_HandshakeThenStatusRequest ==
    /\ \A i \in OpsAt("write") : i <= 2
    /\ pc = "writeHandshake" => ioLog = <<>>
    /\ pc = "writeRequest" => Len(ioLog) = 1
    /\ Len(ioLog) >= 1 =>
          /\ ioLog[1].op = "write"
          /\ IsHandshakePacket(ioLog[1].bytes, host, port)
    /\ Len(ioLog) >= 2 =>
          /\ ioLog[2].op = "write"
          /\ ioLog[2].bytes = <<1, 0>>

C1_Witness ==
    /\ pc = "readPayload"
    /\ host = LongHost
    /\ port = 25565
    /\ Len(ioLog[1].bytes) > 130

\* a well-formed status response: VarInt(len) [VarInt(packetID), VarInt(jsonLen), json]
StatusResponse(pid, json) ==
    LET payload == writeVarInt(pid) \o writeVarInt(Len(json)) \o json
    IN  writeVarInt(Len(payload)) \o payload

\* C2: when the server's bytes begin with a well-formed status response, the
\* call takes exactly that response off the connection and not one byte more,
\* holds its payload in data, and returns its json bytes with no error.
C2_ReadsExactlyTheResponse ==
    \A pid \in 0..3 : \A i \in 1..(Len(rx) + 1) : \A j \in (i - 1)..Len(rx) :
        LET json == SubSeq(rx, i, j)
            resp == StatusResponse(pid, json)
        IN  IsPrefix(resp, rx) =>
                /\ rx = resp
                /\ pc \in {"parse", "done"}
                /\ data = writeVarInt(pid) \o writeVarInt(Len(json)) \o json
                /\ pc = "done" => ret.err = "nil" /\ ret.json = json

C2_Witness ==
    /\ Ok
    /\ rx = <<3, 0, 1, 128>>
    /\ ret.json = <<128>>

\* C3: every failed step ends the call at once with an error, an empty json and
\* a zero latency; nothing is returned as a success after a step has failed.
C3_FailFastNoPartialSuccess ==
    /\ failures # <<>> => pc = "done" /\ ret.err # "nil"
    /\ pc = "done" /\ ret.err # "nil" => ret.json = <<>> /\ ret.ping = 0

\* a ping packet: VarInt(9), packet-ID 0x01, eight bytes
IsPing(e) == e.op = "write" /\ Len(e.bytes) = 10 /\ e.bytes[1] = 9 /\ e.bytes[2] = 1

\* C6: a call that succeeded with no step failing wrote a ping packet after the
\* status response was read, and its timer started no earlier than the moment
\* that response was complete.
C6_LatencyFromPingPong ==
    CleanOk => /\ \E i \in OpsAt("write") : IsPing(ioLog[i])
          /\ start >= tStatusRead

\* what follows the status response among the bytes read: the pong
PongBytes == Drop(rx, readVarInt(rx).n + Len(data))
PongID == readVarInt(Drop(PongBytes, readVarInt(PongBytes).n))

\* C7: a call succeeds (no step failing) only after reading, behind the status
\* response, a pong whose packet-ID is 0x01.
C7_SuccessOnlyWithPongID1 ==
    CleanOk => PongID.err = "nil" /\ PongID.num = Wide(1)

\* C8: the call never stops anywhere but at its return.
C8_AlwaysTerminates == pc = "done" \/ ENABLED Next

\* C9: the connection is open from the dial to the return and closed exactly
\* once, as the last operation on it, by the time the call has returned; a
\* failed dial leaves no connection.
C9_ConnectionReleased ==
    /\ pc \in {"call"} => conn = "none"
    /\ pc \notin {"call", "done"} => conn = "open" /\ OpsAt("close") = {}
    /\ pc = "done" /\ ret.err = "dial" => conn = "none" /\ ioLog = <<>>
    /\ pc = "done" /\ ret.err # "dial" =>
          /\ conn = "closed"
          /\ OpsAt("close") = {Len(ioLog)}

C9_Witness ==
    /\ pc = "done"
    /\ ret.err = "UnexpectedEOF"
    /\ conn = "closed"
    /\ "payload" \in {failures[i] : i \in 1..Len(failures)}

(***************************************************************************)
(* Properties of the codec (checked under SpecVarInt).                     *)
(***************************************************************************)
\* C4: readVarInt gives back the value writeVarInt encoded, with no error, taking
\* exactly the bytes written; there is at least one byte, at most five, 0 is the
\* single byte 0x00, and the high bit is set on every byte but the last.
C4_VarIntRoundTrip ==
    /\ cPc \in {"written", "roundtrip"} =>
          /\ Len(cBuf) >= 1 /\ Len(cBuf) <= 5
          /\ \A i \in 1..Len(cBuf) : HighBit(cBuf[i]) <=> i < Len(cBuf)
          /\ cValue = 0 => cBuf = <<0>>
    /\ cPc = "roundtrip" =>
          /\ cRes.err = "nil"
          /\ cRes.num = Wide(cValue)
          /\ cRes.n = Len(cBuf)

C4_Witness ==
    /\ cPc = "roundtrip"
    /\ cValue = 2147483647
    /\ Len(cBuf) = 5
    /\ cRes.num = [hi |-> 7, lo |-> 268435455]

\* C5: a stream whose first five bytes all carry the continuation bit is
\* refused with "VarInt too long", whatever the sixth byte is.
C5_RejectsSixByteEncodings ==
    (cPc = "read" /\ Len(cBuf) >= 6 /\ \A i \in 1..5 : HighBit(cBuf[i]))
        => cRes.err = "VarIntTooLong"

(***************************************************************************)
(* Properties of the text renderer (checked under SpecText).               *)
(***************************************************************************)
\* the texts of a tree in document order, walked with an explicit stack of the
\* children still to visit
RECURSIVE Walk(_, _)
Walk(stack, acc) ==
    IF stack = <<>> THEN acc
    ELSE LET top == stack[1]
             rest == Drop(stack, 1)
         IN  IF top.TextComponent = <<>>
                 THEN Walk(rest, acc \o top.RawString)
                 ELSE Walk(top.TextComponent[1].Extra \o rest,
                           acc \o top.TextComponent[1].Text)

DocumentOrderText(comp) == Walk(<<MixedComponent(comp)>>, <<>>)

RECURSIVE Recolor(_, _)
Recolor(comp, color) ==
    ChatComponent(comp.Text, color,
        [i \in 1..Len(comp.Extra) |->
            IF comp.Extra[i].TextComponent = <<>>
                THEN comp.Extra[i]
                ELSE MixedComponent(Recolor(comp.Extra[i].TextComponent[1], color))])

SpecExample ==
    ChatComponent(<<"A">>, "red", <<MixedComponent(ChatComponent(<<"B">>, "", <<>>))>>)

\* C10: the plain projection is the node's text, then each extra child's
\* contribution in order (a string child its string, a component child its own
\* projection), depth first; recolouring every node leaves it unchanged, and
\* {text:"A", color:"red", extra:[{text:"B"}]} gives "AB".
C10_PlainIsDocumentOrderText ==
    rPc = "plain" =>
        /\ rOut = DocumentOrderText(component)
        /\ \A color \in {"", "red", "blue", "#00FF00"} :
              parseChatComponentPlain(Recolor(component, color)) = rOut
        /\ component = SpecExample => rOut = <<"A", "B">>

C10_Witness ==
    /\ rPc = "plain"
    /\ Len(component.Extra) = 2
    /\ component.Extra[1].TextComponent # <<>>
    /\ component.Extra[1].TextComponent[1].Extra # <<>>
    /\ component.Extra[2].RawString = <<"B">>
    /\ rOut = <<"A", "C", "A", "B">>

\* the colour escape a node emits, if any
OwnEscape(comp) ==
    IF getColorANSI(comp.Color) # "" THEN <<getColorANSI(comp.Color)>> ELSE <<>>

\* the rendering as the original statement has it: escape, text, children, reset
RECURSIVE EscapeTextChildrenReset(_)
EscapeTextChildrenReset(comp) ==
    LET RECURSIVE children(_)
        children(i) ==
            IF i > Len(comp.Extra) THEN <<>>
            ELSE (IF comp.Extra[i].TextComponent # <<>>
                      THEN EscapeTextChildrenReset(comp.Extra[i].TextComponent[1])
                      ELSE comp.Extra[i].RawString)
                 \o children(i + 1)
    IN  OwnEscape(comp) \o comp.Text \o children(1) \o <<ansiReset>>

\* C11: the colored output of a node is its colour escape (when its colour is
\* a known name or a #RRGGBB value), then its own text, then the colored
\* rendering of each extra child in order, then one reset at the end of the
\* node's contribution.
C11_EscapeTextChildrenReset ==
    rPc = "colored" => rOut = EscapeTextChildrenReset(component)

\* position i starts a pair that is substituted
CodeAt(s, i) ==
    /\ s[i] = "§"
    /\ i < Len(s)
    /\ s[i + 1] \in DOMAIN legacyColorMap

\* what position i contributes: a pair's escape at its first character,
\* nothing at its second, the character itself anywhere else
Contribution(s, i) ==
    IF CodeAt(s, i) THEN <<legacyColorMap[s[i + 1]]>>
    ELSE IF i > 1 /\ CodeAt(s, i - 1) THEN <<>>
    ELSE <<s[i]>>

RECURSIVE Contributions(_, _)
Contributions(s, n) ==
    IF n = 0 THEN <<>> ELSE Contributions(s, n - 1) \o Contribution(s, n)

\* C12: parseLegacyColorString replaces every § that is immediately followed
\* by a recognised code character with that code's escape, consuming both
\* characters, copies every other character through in order (a § before an
\* unrecognised character and a trailing § included), and appends exactly
\* one reset; "§aHello§r" gives green, Hello, reset, reset and "§zX" gives
\* §zX, reset.
C12_LegacySubstitution ==
    rPc = "legacy" =>
        /\ rOut = Contributions(legacy, Len(legacy)) \o <<ansiReset>>
        /\ Len(rOut) = Len(legacy) + 1
                       - Cardinality({i \in 1..Len(legacy) : CodeAt(legacy, i)})
        /\ legacy = Hello =>
              rOut = <<"\\033[92m", "H", "e", "l", "l", "o", "\\033[0m", "\\033[0m">>
        /\ legacy = UnknownCode => rOut = <<"§", "z", "X", "\\033[0m">>

C12_Witness ==
    /\ rPc = "legacy"
    /\ legacy = <<"§", "a", "H", "§">>
    /\ rOut = <<"\\033[92m", "H", "§", "\\033[0m">>

MaxInt32 == 2147483647

\* the squared distance from the triple under test to palette entry i
DistanceTo(i) == SquaredDistance(rgb[1], rgb[2], rgb[3], windowsConsoleColors[i])

\* the lowest index among the entries at minimum distance
Nearest ==
    CHOOSE i \in 1..16 :
        \A j \in 1..16 : /\ DistanceTo(i) <= DistanceTo(j)
                         /\ DistanceTo(j) = DistanceTo(i) => i <= j

\* C13: rgbToConsoleColor returns the code of the lowest-index palette entry
\* among the 16 at minimum squared distance; some entry is always selected
\* (the final minimum is below the initial one), each square and each sum
\* stays within int32, and (255,0,0) gives the code of the named colour red.
C13_NearestLowestIndex ==
    rPc = "rgb" =>
        /\ Len(windowsConsoleColors) = 16
        /\ rOut = <<windowsConsoleColors[Nearest].code>>
        /\ rgbSearch(rgb[1], rgb[2], rgb[3]).minDist = DistanceTo(Nearest)
        /\ rgbSearch(rgb[1], rgb[2], rgb[3]).minDist < InitialMinDist
        /\ \A i \in 1..16 : DistanceTo(i) \in 0..(InitialMinDist - 1)
        /\ InitialMinDist <= MaxInt32
        /\ rgb = <<255, 0, 0>> => rOut = <<minecraftColorMap["red"]>>

C13_Witness ==
    /\ rPc = "rgb"
    /\ rgb = <<64, 0, 0>>
    /\ DistanceTo(1) = DistanceTo(2)
    /\ rOut = <<"\\033[30m">>
====
